---------------------------- MODULE Spec2Model ----------------------------
(***************************************************************************)
(* Jenkins parameter scanners: the job tree walker, the pipeline config    *)
(* classifier, the text parameter matcher, the repository file locator,    *)
(* the per-job resolver (analyze_job), the scan loops, the job /           *)
(* repository reconciliation of the unified scanner and the config export  *)
(* of the exporter and of the complete scanner.                            *)
(*                                                                         *)
(* Texts are sequences of lexemes.  A lexeme is either one character (a    *)
(* name letter, a punctuation sign, a blank) or one literal piece of a     *)
(* regular expression or of the XML vocabulary ("params.", "<name>") that  *)
(* contains no name letter.  Optional values (Python None) are sequences   *)
(* of length 0 or 1.                                                       *)
(***************************************************************************)
EXTENDS Integers, Sequences, FiniteSets, TLC

(***************************************************************************)
(* Bounds of the model.                                                    *)
(***************************************************************************)
MaxLeaves == 2
MaxRuns == 2
MaxJobRecords == 2
MaxRepoRecords == 1
RecursionLimit == 3

None == <<>>
Some(v) == <<v>>
IsSome(o) == Len(o) > 0
Val(o) == o[1]

(***************************************************************************)
(* str.lower() / re.IGNORECASE on the lexemes that have an upper case.     *)
(***************************************************************************)
Lower(c) ==
  CASE c = "X" -> "x"
    [] c = "Y" -> "y"
    [] c = "A" -> "a"
    [] c = "B" -> "b"
    [] c = "STRING" -> "string"
    [] c = "NAME" -> "name"
    [] c = "booleanParam" -> "booleanparam"
    [] c = "Repo" -> "repo"
    [] OTHER -> c

LowerStr(s) == [i \in 1..Len(s) |-> Lower(s[i])]

\* s occurs in t starting at position i (1-based)
OccursAt(s, t, i) ==
  /\ i >= 1
  /\ i + Len(s) - 1 <= Len(t)
  /\ \A k \in 1..Len(s) : t[i + k - 1] = s[k]

\* Python "s in t"
Contains(s, t) == \E i \in 1..(Len(t) - Len(s) + 1) : OccursAt(s, t, i)

\* the sequences over S of length at most n
SeqsUpTo(S, n) == UNION {[1..k -> S] : k \in 0..n}

IsSpace(c) == c \in {" ", "\n"}
IsQuote(c) == c \in {"'", "\""}

(***************************************************************************)
(* Regular expressions.  A pattern is a sequence of items:                 *)
(*   Lit(s)  the lexemes of s, verbatim                                    *)
(*   Opt(c)  c?                                                            *)
(*   Ws      \s*                                                           *)
(*   Quote   ['"]                                                          *)
(* Names are letters only, so the greedy match never has to backtrack.     *)
(***************************************************************************)
Lit(s) == [k |-> "lit", s |-> s]
Opt(c) == [k |-> "opt", s |-> <<c>>]
Ws == [k |-> "ws", s |-> <<>>]
Quote == [k |-> "quote", s |-> <<>>]

EqLex(a, b, ic) == IF ic THEN Lower(a) = Lower(b) ELSE a = b

RECURSIVE SkipSpace(_, _)
SkipSpace(t, i) ==
  IF i <= Len(t) /\ IsSpace(t[i]) THEN SkipSpace(t, i + 1) ELSE i

\* position after the match of items j.. of pat at position i of t; 0: no match
RECURSIVE MatchEnd(_, _, _, _, _)
MatchEnd(pat, j, t, i, ic) ==
  IF j > Len(pat) THEN i
  ELSE LET it == pat[j] IN
    CASE it.k = "lit" ->
           IF /\ i + Len(it.s) - 1 <= Len(t)
              /\ \A k \in 1..Len(it.s) : EqLex(t[i + k - 1], it.s[k], ic)
           THEN MatchEnd(pat, j + 1, t, i + Len(it.s), ic)
           ELSE 0
      [] it.k = "opt" ->
           IF i <= Len(t) /\ EqLex(t[i], it.s[1], ic)
           THEN MatchEnd(pat, j + 1, t, i + 1, ic)
           ELSE MatchEnd(pat, j + 1, t, i, ic)
      [] it.k = "ws" -> MatchEnd(pat, j + 1, t, SkipSpace(t, i), ic)
      [] it.k = "quote" ->
           IF i <= Len(t) /\ IsQuote(t[i])
           THEN MatchEnd(pat, j + 1, t, i + 1, ic)
           ELSE 0

MatchAt(pat, t, i, ic) == MatchEnd(pat, 1, t, i, ic)

\* re.search(pat, t[, re.IGNORECASE]) is not None
ReSearch(pat, t, ic) == \E i \in 1..Len(t) : MatchAt(pat, t, i, ic) > 0

\* re.finditer(pat, t): the non-overlapping matches, leftmost first, as
\* records [start, end] of 0-based offsets (match.start(), match.end())
RECURSIVE FindIterFrom(_, _, _)
FindIterFrom(pat, t, i) ==
  IF i > Len(t) THEN <<>>
  ELSE LET e == MatchAt(pat, t, i, FALSE) IN
    IF e > 0
    THEN <<[start |-> i - 1, end |-> e - 1]>>
           \o FindIterFrom(pat, t, IF e > i THEN e ELSE i + 1)
    ELSE FindIterFrom(pat, t, i + 1)

ReFindIter(pat, t) == FindIterFrom(pat, t, 1)

(***************************************************************************)
(* EnhancedJenkinsScanner.search_parameter_in_text                        *)
(***************************************************************************)
Keywords == <<"string", "booleanParam", "choice", "password">>

\* rf'string\s*\(\s*name\s*:\s*[\'\"]{parameter_name}[\'\"]'
ParamDefinitionPattern(kw, parameter_name) ==
  <<Lit(<<kw>>), Ws, Lit(<<"(">>), Ws, Lit(<<"name">>), Ws, Lit(<<":">>), Ws,
    Quote, Lit(parameter_name), Quote>>

param_definition_patterns(parameter_name) ==
  [n \in 1..Len(Keywords) |-> ParamDefinitionPattern(Keywords[n], parameter_name)]

\* rf'\${{?{parameter_name}}}?', rf'params\.{...}', rf'env\.{...}', rf'{...}\s*='
usage_patterns(parameter_name) ==
  << <<Lit(<<"$">>), Opt("{"), Lit(parameter_name), Opt("}")>>,
     <<Lit(<<"params.">>), Lit(parameter_name)>>,
     <<Lit(<<"env.">>), Lit(parameter_name)>>,
     <<Lit(parameter_name), Ws, Lit(<<"=">>)>> >>

\* the flag the declaration loop is run with (line 180)
DefinitionIgnoreCase == TRUE

\* the matches of the first of the patterns n.. of pats that has one
RECURSIVE MatchesOfFirstIdiom(_, _, _)
MatchesOfFirstIdiom(pats, n, t) ==
  IF n > Len(pats) THEN <<>>
  ELSE LET ms == ReFindIter(pats[n], t) IN
    IF Len(ms) > 0
    THEN [m \in 1..Len(ms) |-> [pattern |-> n, position |-> ms[m].start, end |-> ms[m].end]]
    ELSE MatchesOfFirstIdiom(pats, n + 1, t)

\* the matches of patterns n.. of pats, each tagged with its pattern index
RECURSIVE MatchesOf(_, _, _)
MatchesOf(pats, n, t) ==
  IF n > Len(pats) THEN <<>>
  ELSE LET ms == ReFindIter(pats[n], t) IN
    [m \in 1..Len(ms) |-> [pattern |-> n, position |-> ms[m].start, end |-> ms[m].end]]
      \o MatchesOf(pats, n + 1, t)

search_parameter_in_text(text, parameter_name) ==
  IF Len(text) = 0
  THEN [found |-> FALSE, matches |-> <<>>, has_parameters_block |-> FALSE,
        defined_as_parameter |-> FALSE]
  ELSE LET defs == param_definition_patterns(parameter_name)
           ms == MatchesOf(usage_patterns(parameter_name), 1, text)
       IN [found |-> Len(ms) > 0,
           matches |-> ms,
           has_parameters_block |->
             ReSearch(<<Lit(<<"parameters">>), Ws, Lit(<<"{">>)>>, text, FALSE),
           defined_as_parameter |->
             \E n \in 1..Len(defs) : ReSearch(defs[n], text, DefinitionIgnoreCase)]

(***************************************************************************)
(* A job configuration document as the server holds it, and the text that  *)
(* config.xml serves for it.  A document that is not well-formed is served *)
(* without its closing root tag.                                           *)
(*   root        tag of the root element                                   *)
(*   desc        text of <description>                                     *)
(*   extraName   a <name> element outside any parameter definition         *)
(*   params      the parameter definitions [type, name]                    *)
(*   defClass    class attribute of <definition> (None: no such element)   *)
(*   script, url, scriptPath   text of the element (None: no such element) *)
(***************************************************************************)
InlineClass == <<"org.jenkinsci.plugins.workflow.cps.", "Cps", "FlowDefinition">>
ScmClass == <<"org.jenkinsci.plugins.workflow.cps.", "Cps", "Scm", "FlowDefinition">>
OtherClass == <<"org.example.", "CustomDefinition">>

WordLexemes == {"String", "Boolean", "Choice", "Password"}

RECURSIVE RawParams(_, _)
RawParams(ps, n) ==
  IF n > Len(ps) THEN <<>>
  ELSE <<"<hudson.model.", ps[n].type, "ParameterDefinition>", "<name>">>
         \o ps[n].name
         \o <<"</name>", "</hudson.model.", ps[n].type, "ParameterDefinition>">>
         \o RawParams(ps, n + 1)

RawElem(tag, o) == IF IsSome(o) THEN <<"<", tag, ">">> \o Val(o) \o <<"</", tag, ">">> ELSE <<>>

RawBody(d) ==
  <<"<", d.root, ">">>
    \o RawElem("description", Some(d.desc))
    \o (IF IsSome(d.extraName) THEN <<"<name>">> \o Val(d.extraName) \o <<"</name>">> ELSE <<>>)
    \o RawParams(d.params, 1)
    \o (IF IsSome(d.defClass)
        THEN <<"<definition class=">> \o Val(d.defClass) \o <<">">>
               \o RawElem("script", d.script)
               \o (IF IsSome(d.url) THEN <<"<scm>">> \o RawElem("url", d.url) \o <<"</scm>">> ELSE <<>>)
               \o RawElem("scriptPath", d.scriptPath)
               \o <<"</definition>">>
        ELSE <<>>)

Raw(d) == IF d.wellformed THEN RawBody(d) \o <<"</", d.root, ">">> ELSE RawBody(d)

\* Element.text: None for an element without text
ElemText(o) == IF IsSome(o) /\ Len(Val(o)) > 0 THEN o ELSE None

(***************************************************************************)
(* EnhancedJenkinsScanner.get_job_config: the text served for the job, or  *)
(* the empty text when the request fails.                                  *)
(***************************************************************************)
\* an empty freestyle project
BaseDoc ==
  [wellformed |-> TRUE, root |-> "project", desc |-> <<>>, extraName |-> None,
   params |-> <<>>, defClass |-> None, script |-> None, url |-> None,
   scriptPath |-> None]

Unavailable == [available |-> FALSE]
Served(d) == [available |-> TRUE, doc |-> d]

get_job_config(response) == IF response.available THEN Raw(response.doc) ELSE <<>>

\* a character no encoding to UTF-8 exists for (a lone surrogate): str
\* accepts it, and ET.fromstring, which encodes its argument before it
\* parses, raises UnicodeEncodeError on it, which is no ET.ParseError
Surrogate == "\\ud800"
CanEncode(text) == ~Contains(<<Surrogate>>, text)

\* ET.fromstring: the tree of a served document; a text that is no served
\* document does not parse
ETFromString(response) ==
  IF response.available THEN response.doc ELSE [BaseDoc EXCEPT !.wellformed = FALSE]

(***************************************************************************)
(* EnhancedJenkinsScanner.analyze_job_type.  ET.fromstring raises          *)
(* ParseError on a text that is not well-formed; the handler returns the   *)
(* defaults.                                                               *)
(***************************************************************************)
DefaultJobInfo ==
  [type |-> "unknown", has_inline_script |-> FALSE, scm_type |-> None,
   git_url |-> None, jenkinsfile_path |-> None, inline_script |-> None]

\* the definition class decides, whatever the root
ClassifiedByDefinitionOnly(d) ==
  IF ~d.wellformed THEN DefaultJobInfo
  ELSE IF IsSome(d.defClass) /\ Contains(<<"Cps", "FlowDefinition">>, Val(d.defClass))
  THEN [DefaultJobInfo EXCEPT !.type = "pipeline", !.has_inline_script = TRUE,
                              !.inline_script = ElemText(d.script)]
  ELSE IF IsSome(d.defClass)
          /\ Contains(<<"Cps", "Scm", "FlowDefinition">>, Val(d.defClass))
  THEN [DefaultJobInfo EXCEPT !.type = "pipeline", !.scm_type = Some("scm"),
                              !.git_url = ElemText(d.url),
                              !.jenkinsfile_path = ElemText(d.scriptPath)]
  ELSE IF d.root = "flow-definition" THEN [DefaultJobInfo EXCEPT !.type = "pipeline"]
  ELSE IF d.root \in {"project", "maven2-moduleset"}
  THEN [DefaultJobInfo EXCEPT !.type = "freestyle"]
  ELSE DefaultJobInfo

analyze_job_type(d) ==
  IF ~d.wellformed THEN DefaultJobInfo
  ELSE IF d.root = "flow-definition"
  THEN IF IsSome(d.defClass)
       THEN IF Contains(<<"Cps", "FlowDefinition">>, Val(d.defClass))
            THEN [DefaultJobInfo EXCEPT !.type = "pipeline",
                                        !.has_inline_script = TRUE,
                                        !.inline_script = ElemText(d.script)]
            ELSE IF Contains(<<"Cps", "Scm", "FlowDefinition">>, Val(d.defClass))
            THEN [DefaultJobInfo EXCEPT !.type = "pipeline",
                                        !.scm_type = Some("scm"),
                                        !.git_url = ElemText(d.url),
                                        !.jenkinsfile_path = ElemText(d.scriptPath)]
            ELSE [DefaultJobInfo EXCEPT !.type = "pipeline"]
       ELSE [DefaultJobInfo EXCEPT !.type = "pipeline"]
  ELSE IF d.root \in {"project", "maven2-moduleset"}
  THEN [DefaultJobInfo EXCEPT !.type = "freestyle"]
  ELSE DefaultJobInfo

(***************************************************************************)
(* EnhancedJenkinsScanner.search_parameter_in_xml                          *)
(***************************************************************************)
NameElemPattern(parameter_name) ==
  <<Lit(<<"<name>">>), Lit(parameter_name), Lit(<<"</name>">>)>>

\* <hudson\.model\.\w+ParameterDefinition> at position i of t
ParamDefTagAt(t, i) ==
  /\ i + 2 <= Len(t)
  /\ t[i] = "<hudson.model."
  /\ t[i + 1] \in WordLexemes
  /\ t[i + 2] = "ParameterDefinition>"

\* <(hudson\.model\.\w+ParameterDefinition)>.*?<name>P</name> with re.DOTALL
TypeMatchAt(t, i, parameter_name) ==
  /\ ParamDefTagAt(t, i)
  /\ \E j \in (i + 3)..Len(t) : MatchAt(NameElemPattern(parameter_name), t, j, FALSE) > 0

\* group(1) of the leftmost match, None without a match
TypeMatch(t, parameter_name) ==
  LET S == {i \in 1..Len(t) : TypeMatchAt(t, i, parameter_name)} IN
  IF S = {} THEN None
  ELSE LET i == CHOOSE m \in S : \A n \in S : m <= n
       IN Some(<<"hudson.model.", t[i + 1], "ParameterDefinition">>)

script_patterns(parameter_name) ==
  << <<Lit(<<"$">>), Opt("{"), Lit(parameter_name), Opt("}")>>,
     <<Lit(<<"params.">>), Lit(parameter_name)>>,
     <<Lit(<<"env.">>), Lit(parameter_name)>> >>

search_parameter_in_xml(config_xml, parameter_name) ==
  LET inParams ==
        \/ ReSearch(NameElemPattern(parameter_name), config_xml, FALSE)
        \/ \E i \in 1..Len(config_xml) : TypeMatchAt(config_xml, i, parameter_name)
      ms == MatchesOf(script_patterns(parameter_name), 1, config_xml)
  IN [found_in_parameters |-> inParams,
      found_in_script |-> Len(ms) > 0,
      parameter_type |-> IF inParams THEN TypeMatch(config_xml, parameter_name) ELSE None,
      script_matches |-> ms]

(***************************************************************************)
(* EnhancedJenkinsScanner.get_jenkinsfile_from_git.  The local storage is  *)
(*   configured   git_repos_path was given                                 *)
(*   exists       the directory exists                                     *)
(*   files        the files below it: [repo, path, readable, content]      *)
(*   denied       the repository directories the user may not search       *)
(***************************************************************************)
RECURSIVE RStrip(_, _)
RStrip(s, c) ==
  IF Len(s) > 0 /\ s[Len(s)] = c THEN RStrip(SubSeq(s, 1, Len(s) - 1), c) ELSE s

\* s.split(c)[-1]
RECURSIVE LastSegment(_, _)
LastSegment(s, c) ==
  IF Len(s) = 0 THEN <<>>
  ELSE IF s[Len(s)] = c THEN <<>>
  ELSE LastSegment(SubSeq(s, 1, Len(s) - 1), c) \o <<s[Len(s)]>>

\* s.replace(c, '')
RECURSIVE Remove(_, _)
Remove(s, c) ==
  IF Len(s) = 0 THEN <<>>
  ELSE (IF s[1] = c THEN <<>> ELSE <<s[1]>>) \o Remove(Tail(s), c)

RepoName(git_url) == Remove(LastSegment(RStrip(git_url, "/"), "/"), ".git")

possible_paths(git_url, jenkinsfile_path) ==
  << [repo |-> RepoName(git_url), path |-> jenkinsfile_path],
     [repo |-> LowerStr(RepoName(git_url)), path |-> jenkinsfile_path] >>

FileAt(fs, p) == {f \in fs.files : f.repo = p.repo /\ f.path = p.path}

\* the content of the first candidate that exists and can be read
RECURSIVE ReadFirst(_, _, _)
ReadFirst(fs, paths, n) ==
  IF n > Len(paths) THEN None
  ELSE LET fset == FileAt(fs, paths[n]) IN
    IF fset # {} /\ (CHOOSE f \in fset : TRUE).readable
    THEN Some((CHOOSE f \in fset : TRUE).content)
    ELSE ReadFirst(fs, paths, n + 1)

get_jenkinsfile_from_git(fs, git_url, jenkinsfile_path) ==
  IF ~fs.configured \/ ~fs.exists THEN None
  ELSE ReadFirst(fs, possible_paths(git_url, jenkinsfile_path), 1)

\* line 144: path.exists() is outside the try of lines 145-149.  Below a
\* directory that may not be searched, Path.exists() raises PermissionError
\* where pathlib re-raises the errors of stat() other than "no such file",
\* and answers False where it swallows every OSError.  The loop gets to a
\* candidate when no candidate before it was read.
ProbesDenied(fs, git_url, jenkinsfile_path) ==
  LET paths == possible_paths(git_url, jenkinsfile_path) IN
  /\ fs.configured
  /\ fs.exists
  /\ \E n \in 1..Len(paths) :
       /\ paths[n].repo \in fs.denied
       /\ ReadFirst(fs, SubSeq(paths, 1, n - 1), 1) = None

ExistsRaises(fs, git_url, jenkinsfile_path) ==
  IF ProbesDenied(fs, git_url, jenkinsfile_path) THEN BOOLEAN ELSE {FALSE}

(***************************************************************************)
(* The folder hierarchy the listing collaborator serves.  A JobRef is      *)
(* [name, url, class]; a folder's url is the path its children are listed  *)
(* under, "" is the root.                                                  *)
(***************************************************************************)
FolderClass == <<"com.cloudbees.hudson.plugins.folder.", "Folder">>
OrgFolderClass == <<"jenkins.branch.", "Organization", "Folder">>
PipelineJobClass == <<"org.jenkinsci.plugins.workflow.job.", "WorkflowJob">>

Folders == {"F1", "F2"}
Paths == {""} \cup Folders
LeafUrl(i) == CASE i = 1 -> "J1" [] i = 2 -> "J2" [] i = 3 -> "J3" [] OTHER -> "J4"

FolderRef(f) == [name |-> f, url |-> f,
                 class |-> IF f = "F1" THEN FolderClass ELSE OrgFolderClass]
LeafRef(i) == [name |-> LeafUrl(i), url |-> LeafUrl(i), class |-> PipelineJobClass]

\* where each folder hangs: "" (root), a folder, or "-" (not on the server)
FolderShapes ==
  { [F1 |-> "-", F2 |-> "-"], [F1 |-> "", F2 |-> "-"],
    [F1 |-> "", F2 |-> "F1"], [F1 |-> "", F2 |-> ""] }

RECURSIVE SeqOfSet(_)
SeqOfSet(S) ==
  IF S = {} THEN <<>>
  ELSE LET x == CHOOSE y \in S : \A z \in S : y <= z IN <<x>> \o SeqOfSet(S \ {x})

RECURSIVE FolderRefs(_, _, _)
FolderRefs(shape, p, fs) ==
  IF fs = <<>> THEN <<>>
  ELSE (IF shape[fs[1]] = p THEN <<FolderRef(fs[1])>> ELSE <<>>)
         \o FolderRefs(shape, p, Tail(fs))

LeafRefs(parent, p) ==
  LET idxs == SeqOfSet({i \in DOMAIN parent : parent[i] = p})
  IN [k \in 1..Len(idxs) |-> LeafRef(idxs[k])]

\* the children listed under path p
Children(shape, parent, foldersFirst, p) ==
  IF foldersFirst
  THEN FolderRefs(shape, p, <<"F1", "F2">>) \o LeafRefs(parent, p)
  ELSE LeafRefs(parent, p) \o FolderRefs(shape, p, <<"F1", "F2">>)

Listings ==
  { [p \in Paths |-> [ok |-> TRUE, jobs |-> Children(shape, parent, ff, p)]] :
      <<shape, parent, ff>> \in
        { t \in FolderShapes
                  \X (UNION { [1..n -> Paths] : n \in 0..MaxLeaves })
                  \X BOOLEAN :
            /\ \A i \in DOMAIN t[2] : t[2][i] = "" \/ t[1][t[2][i]] # "-"
            /\ (t[1]["F1"] = "-" => t[3]) } }

(***************************************************************************)
(* EnhancedJenkinsScanner.get_all_jobs                                     *)
(***************************************************************************)
IsPlainFolderClass(job_class) == job_class = FolderClass

\* line 49
IsFolderClass(job_class) ==
  Contains(<<"Folder">>, job_class) \/ Contains(<<"Organization", "Folder">>, job_class)

RECURSIVE get_all_jobs(_, _)
RECURSIVE WalkChildren(_, _, _)
WalkChildren(lst, jobs, n) ==
  IF n > Len(jobs) THEN <<>>
  ELSE (IF IsFolderClass(jobs[n].class)
        THEN get_all_jobs(lst, jobs[n].url)
        ELSE <<jobs[n]>>)
         \o WalkChildren(lst, jobs, n + 1)

get_all_jobs(lst, folder_path) ==
  IF lst[folder_path].ok THEN WalkChildren(lst, lst[folder_path].jobs, 1) ELSE <<>>

(***************************************************************************)
(* The inputs: parameter names, script texts, configuration documents,     *)
(* local storages.                                                         *)
(***************************************************************************)
ParamNames == {<<"X">>, <<"x">>}

\* a typed declaration of nm, in the given spelling
Declaration(form, nm) ==
  CASE form = "string" -> <<"string", "(", "name", ":", " ", "'">> \o nm \o <<"'", ")">>
    [] form = "STRING" -> <<"STRING", "(", "NAME", ":", " ", "\"">> \o nm \o <<"\"", ")">>
    [] form = "booleanParam" -> <<"booleanParam", " ", "(", "name", ":", "'">> \o nm \o <<"'", ")">>
    [] OTHER -> <<>>

\* one usage of nm, in the given idiom
Usage(form, nm) ==
  CASE form = "${N}" -> <<"$", "{">> \o nm \o <<"}">>
    [] form = "$N" -> <<"echo", " ", "$">> \o nm
    [] form = "params.N" -> <<"params.">> \o nm
    [] form = "env.N" -> <<"env.">> \o nm
    [] form = "N =" -> nm \o <<" ", "=">>
    [] form = "$N =" -> <<"$">> \o nm \o <<" ", "=">>
    [] OTHER -> <<>>

DeclForms == {"string", "STRING", "booleanParam"}
UseForms == {"${N}", "$N", "params.N", "env.N", "N =", "$N ="}

Declarations == {<<>>} \cup {Declaration(f, nm) : f \in DeclForms, nm \in ParamNames}
Usages == {<<>>} \cup {Usage(f, nm) : f \in UseForms, nm \in ParamNames}

Join(a, b) == IF a = <<>> \/ b = <<>> THEN a \o b ELSE a \o <<"\n">> \o b

Scripts == {Join(d, u) : d \in Declarations, u \in Usages}

FileContents ==
  { <<>>, <<"echo">>, Usage("${N}", <<"X">>),
    Join(Declaration("string", <<"X">>), Usage("params.N", <<"X">>)) }

GitUrls ==
  { <<"https://git.example.com", "/", "org", "/", "Repo", ".git">>,
    <<"https://git.example.com", "/", "org", "/", "repo", "/">> }

ScriptPaths == { <<"ci", "/", "Jenkinsfile">> }

ParamBlocks ==
  { <<>>, <<[type |-> "String", name |-> <<"X">>]>>,
    <<[type |-> "Boolean", name |-> <<"Y">>], [type |-> "Choice", name |-> <<"X">>]>> }

Descriptions == { <<>>, Usage("${N}", <<"X">>) }

InlineDoc(sc, ps, ds) ==
  [BaseDoc EXCEPT !.root = "flow-definition", !.defClass = Some(InlineClass),
                  !.script = sc, !.params = ps, !.desc = ds]

InlineDocs ==
  { InlineDoc(sc, <<>>, <<>>) : sc \in {None} \cup {Some(t) : t \in Scripts} }
  \cup { InlineDoc(Some(t), ps, ds) :
           t \in FileContents, ps \in ParamBlocks, ds \in Descriptions }

ScmDocs ==
  { [BaseDoc EXCEPT !.root = "flow-definition", !.defClass = Some(ScmClass),
                    !.url = u, !.scriptPath = sp, !.params = ps, !.desc = ds] :
      u \in {None, Some(<<>>)} \cup {Some(g) : g \in GitUrls},
      sp \in {None} \cup {Some(q) : q \in ScriptPaths},
      ps \in ParamBlocks, ds \in Descriptions }
  \cup { [BaseDoc EXCEPT !.root = "flow-definition", !.defClass = Some(ScmClass),
                          !.url = Some(g), !.scriptPath = Some(<<>>)] :
            g \in GitUrls }

OtherDocs ==
  { [BaseDoc EXCEPT !.root = r, !.defClass = dc, !.params = ps, !.desc = ds,
                    !.extraName = en] :
      r \in {"project", "maven2-moduleset", "flow-definition",
             "com.cloudbees.hudson.plugins.folder.Folder"},
      dc \in {None, Some(OtherClass)},
      ps \in ParamBlocks, ds \in Descriptions,
      en \in {None, Some(<<"x">>)} }
  \cup { [BaseDoc EXCEPT !.root = r, !.defClass = Some(dc),
                          !.script = Some(Usage("${N}", <<"X">>)),
                          !.url = Some(<<"https://git.example.com", "/", "org", "/", "repo", "/">>)] :
            r \in {"project", "maven2-moduleset",
                   "com.cloudbees.hudson.plugins.folder.Folder"},
            dc \in {InlineClass, ScmClass} }

Malformed(D) == { [d EXCEPT !.wellformed = FALSE] : d \in D }

\* documents whose description holds a character that cannot be encoded
Unencodable ==
  { [d EXCEPT !.desc = <<Surrogate>>] :
      d \in { BaseDoc,
              InlineDoc(Some(Usage("${N}", <<"X">>)), <<>>, <<>>),
              [BaseDoc EXCEPT !.wellformed = FALSE] } }

\* the documents one job is resolved against
Docs == InlineDocs \cup ScmDocs \cup OtherDocs
          \cup Malformed({d \in InlineDocs \cup ScmDocs : d.desc = <<>>})
          \cup Unencodable

\* the responses of the config collaborator in a scan of several jobs
ScanResponses ==
  { Unavailable,
    Served([BaseDoc EXCEPT !.root = "flow-definition", !.defClass = Some(InlineClass),
                           !.script = Some(Usage("${N}", <<"X">>))]),
    Served([BaseDoc EXCEPT !.root = "flow-definition", !.defClass = Some(ScmClass),
                           !.url = Some(<<"https://git.example.com", "/", "org", "/", "Repo", ".git">>)]) }

NoStorage == [configured |-> FALSE, exists |-> FALSE, files |-> {}, denied |-> {}]

File(repo, path, readable, content) ==
  [repo |-> repo, path |-> path, readable |-> readable, content |-> content]

FilePaths == { <<"Jenkinsfile">> } \cup ScriptPaths

Stored(files, denied) ==
  [configured |-> TRUE, exists |-> TRUE, files |-> files, denied |-> denied]

\* a file that cannot be opened, a directory that cannot be searched
UnreadableStorage == Stored({File(<<"Repo">>, <<"Jenkinsfile">>, FALSE, <<>>)}, {})
DeniedStorage == Stored({}, {<<"Repo">>})

Storages ==
  { NoStorage,
    [NoStorage EXCEPT !.configured = TRUE],
    Stored({}, {}), UnreadableStorage, DeniedStorage,
    Stored({File(<<"repo">>, <<"Jenkinsfile">>, TRUE, Usage("${N}", <<"X">>))},
           {<<"Repo">>}) }
  \cup { Stored({File(r, q, TRUE, c)}, {}) :
           r \in {<<"Repo">>, <<"repo">>}, q \in FilePaths, c \in FileContents }
  \cup { Stored({File(<<"Repo">>, <<"Jenkinsfile">>, FALSE, <<>>),
                  File(<<"repo">>, <<"Jenkinsfile">>, TRUE, c)}, {}) :
           c \in FileContents }

(***************************************************************************)
(* State of one run of main(): scan_all_jobs, analyze_job for each job,    *)
(* generate_enhanced_report.                                               *)
(***************************************************************************)
VARIABLES
  listing,           \* listing collaborator: path -> [ok, jobs]
  config,            \* config collaborator: job url -> response
  storage,           \* local storage below git_repos_path
  parameter_name,    \* the parameter searched
  pc,                \* position in main / scan_all_jobs / analyze_job
  all_jobs,          \* scan_all_jobs: the walker's list
  idx,               \* scan_all_jobs: loop index (1-based)
  results,           \* scan_all_jobs: the list being built
  result,            \* analyze_job: the record being built
  config_xml,        \* analyze_job: the fetched text
  job_info,          \* analyze_job: the classifier's descriptor
  xml_param_search,  \* analyze_job: result of search_parameter_in_xml
  analyzed,          \* history: the records analyze_job returned in this run
  report,            \* what generate_enhanced_report received and derived
  returned,          \* history: the list scan_all_jobs returned, per run
  jenkins_results,   \* unified scanner: records of scan_jobs
  git_results,       \* unified scanner: records of scan_repositories
  unified,           \* unified scanner: the cross analysis of the report
  stack,             \* get_all_jobs: the frames of the recursion, innermost last
  listed,            \* history: the folder paths get_all_jobs has requested
  raised,            \* the exception that reached main(), None without one
  matcher_text,      \* search_parameter_in_text: the text it is given
  matcher_result,    \* search_parameter_in_text: what it returned
  locator_url,       \* get_jenkinsfile_from_git: the repository URL
  locator_path,      \* get_jenkinsfile_from_git: the path of the script
  located,           \* get_jenkinsfile_from_git: how the call ended
  configs            \* the files below the configs directory of an export

vars == <<listing, config, storage, parameter_name, pc, all_jobs, idx, results,
          result, config_xml, job_info, xml_param_search, analyzed, report,
          returned, jenkins_results, git_results, unified, stack, listed,
          raised, matcher_text, matcher_result, locator_url, locator_path,
          located, configs>>

inputs == <<listing, config, storage, parameter_name>>
unifiedVars == <<jenkins_results, git_results, unified>>
walkVars == <<stack, listed>>
matcherVars == <<matcher_text, matcher_result>>
locatorVars == <<locator_url, locator_path, located>>
unitVars == <<matcherVars, locatorVars, configs>>

NoSearch == [found_in_parameters |-> FALSE, found_in_script |-> FALSE,
             parameter_type |-> None, script_matches |-> <<>>]
NoReport == [results |-> <<>>, by_location |-> <<>>, jenkinsfiles_not_found |-> 0]
NoUnified == [matching |-> <<>>, unmatched_jobs |-> {}, orphan_repos |-> {}]

InitLocals ==
  /\ pc = "main"
  /\ all_jobs = <<>>
  /\ idx = 0
  /\ results = <<>>
  /\ result = [found |-> FALSE, sources |-> <<>>]
  /\ config_xml = <<>>
  /\ job_info = DefaultJobInfo
  /\ xml_param_search = NoSearch
  /\ analyzed = <<>>
  /\ report = NoReport
  /\ returned = <<>>
  /\ unified = NoUnified
  /\ stack = <<>>
  /\ listed = <<>>
  /\ raised = None

InitNoUnified ==
  /\ jenkins_results = <<>>
  /\ git_results = <<>>

\* no function is run on its own, nothing has been exported
InitNoMatcher ==
  /\ matcher_text = None
  /\ matcher_result = None

InitNoLocator ==
  /\ locator_url = <<>>
  /\ locator_path = <<>>
  /\ located = None

InitNoExport == configs = {}

InitNoUnits == InitNoMatcher /\ InitNoLocator /\ InitNoExport

SingleJobListing ==
  [p \in Paths |-> [ok |-> TRUE, jobs |-> IF p = "" THEN <<LeafRef(1)>> ELSE <<>>]]

\* one job, resolved against every document and storage
InitJob ==
  /\ listing = SingleJobListing
  /\ \E r \in {Unavailable} \cup {Served(d) : d \in Docs} :
       /\ config = [u \in {LeafUrl(1)} |-> r]
       /\ storage \in IF r.available /\ r.doc.defClass = Some(ScmClass)
                      THEN Storages ELSE {NoStorage}
  /\ parameter_name \in ParamNames

\* a folder hierarchy of several jobs
InitScan ==
  /\ listing \in Listings
  /\ config \in [{LeafUrl(i) : i \in 1..MaxLeaves} -> ScanResponses]
  /\ storage = NoStorage
  /\ parameter_name = <<"X">>

Init == InitScan /\ InitLocals /\ InitNoUnified /\ InitNoUnits

(***************************************************************************)
(* scan_all_jobs, lines 356-368: walk the tree, start with no results      *)
(***************************************************************************)
ResultsKept(old) == old

\* line 368
ResultsAtStart(old) == <<>>

ScanAllJobs ==
  /\ pc = "main"
  /\ all_jobs' = get_all_jobs(listing, "")
  /\ results' = ResultsAtStart(results)
  /\ analyzed' = <<>>
  /\ idx' = 1
  /\ pc' = IF Len(get_all_jobs(listing, "")) >= 1 THEN "analyze_job" ELSE "return"
  /\ UNCHANGED <<inputs, result, config_xml, job_info, xml_param_search, report,
                 returned, unifiedVars, raised, walkVars, unitVars>>

(***************************************************************************)
(* analyze_job, lines 212-228: the record, the config fetch, the early     *)
(* return                                                                  *)
(***************************************************************************)
\* lines 227-228: without a configuration the record is returned as it is
AfterFetchAlways(text) == "classify"
AfterFetch(text) == IF Len(text) = 0 THEN "collect" ELSE "classify"

AnalyzeJobFetch ==
  /\ pc = "analyze_job"
  /\ LET job == all_jobs[idx]
         text == get_job_config(config[job.url])
     IN /\ result' = [job_name |-> job.name, job_url |-> job.url,
                      job_class |-> job.class, found |-> FALSE, sources |-> <<>>]
        /\ config_xml' = text
        /\ pc' = AfterFetch(text)
  /\ job_info' = DefaultJobInfo
  /\ xml_param_search' = NoSearch
  /\ UNCHANGED <<inputs, all_jobs, idx, results, analyzed, report, returned,
                 unifiedVars, raised, walkVars, unitVars>>

(***************************************************************************)
(* analyze_job, lines 230-232: the classifier                              *)
(***************************************************************************)
\* An exception of ET.fromstring that is no ET.ParseError leaves
\* analyze_job_type (line 121 does not catch it), analyze_job (line 231) and
\* scan_all_jobs (line 373) and reaches the handler of main (lines 522-525).
Exception(name, function) == Some([exception |-> name, function |-> function])

AnalyzeJobType ==
  /\ pc = "classify"
  /\ IF CanEncode(config_xml)
     THEN /\ job_info' = analyze_job_type(ETFromString(config[all_jobs[idx].url]))
          /\ result' = [job_type |-> job_info'.type] @@ result
          /\ pc' = "job_parameters"
          /\ UNCHANGED raised
     ELSE /\ raised' = Exception("UnicodeEncodeError", "analyze_job_type")
          /\ pc' = "error"
          /\ UNCHANGED <<job_info, result>>
  /\ UNCHANGED <<inputs, all_jobs, idx, results, config_xml, xml_param_search,
                 analyzed, report, returned, unifiedVars, walkVars, unitVars>>

(***************************************************************************)
(* analyze_job, lines 234-243: parameters defined in the XML               *)
(***************************************************************************)
AttachJobParametersOnly(r, search) ==
  [r EXCEPT !.sources = Append(@, [location |-> "job_parameters",
                                   type |-> "definition",
                                   parameter_type |-> search.parameter_type])]

\* lines 237-242
AttachJobParameters(r, search) ==
  [r EXCEPT !.found = TRUE,
            !.sources = Append(@, [location |-> "job_parameters",
                                   type |-> "definition",
                                   parameter_type |-> search.parameter_type])]

\* the script step is skipped once the parameter block has the parameter
AfterParametersUnlessFound(search) ==
  IF search.found_in_parameters THEN "collect" ELSE "script"

\* lines 245-246: the script step follows the parameter step in any case
AfterParameters(search) == "script"

AnalyzeJobParameters ==
  /\ pc = "job_parameters"
  /\ xml_param_search' = search_parameter_in_xml(config_xml, parameter_name)
  /\ result' =
       IF xml_param_search'.found_in_parameters
       THEN AttachJobParameters(result, xml_param_search')
       ELSE result
  /\ pc' = AfterParameters(xml_param_search')
  /\ UNCHANGED <<inputs, all_jobs, idx, results, config_xml, job_info, analyzed,
                 report, returned, unifiedVars, raised, walkVars, unitVars>>

(***************************************************************************)
(* analyze_job, lines 245-297: the inline script, else the Jenkinsfile of  *)
(* the SCM                                                                 *)
(***************************************************************************)
InlineSource(script_search) ==
  [location |-> "inline_script", type |-> "usage",
   matches |-> Len(script_search.matches),
   defined_in_script |-> script_search.defined_as_parameter]

JenkinsfileSource(jenkinsfile_search, git_url, file_path) ==
  [location |-> "jenkinsfile_from_git",
   type |-> IF ~jenkinsfile_search.defined_as_parameter
            THEN "usage" ELSE "definition_and_usage",
   matches |-> Len(jenkinsfile_search.matches),
   defined_in_jenkinsfile |-> jenkinsfile_search.defined_as_parameter,
   git_url |-> git_url, file_path |-> file_path]

NotFoundSource(git_url, file_path) ==
  [location |-> "jenkinsfile_not_found",
   note |-> "Jenkinsfile nao encontrado nos repos locais",
   git_url |-> git_url, file_path |-> file_path]

AttachNotFoundAsFound(r, git_url, file_path) ==
  [r EXCEPT !.found = TRUE,
            !.sources = Append(@, NotFoundSource(git_url, file_path))]

\* lines 287-294: the note is attached, found is left alone
AttachNotFound(r, git_url, file_path) ==
  [r EXCEPT !.sources = Append(@, NotFoundSource(git_url, file_path))]

\* the condition of the elif at line 262
UsesScm(info) == info.scm_type = Some("scm") /\ IsSome(info.git_url)

\* the path as the configuration gives it, with no default
JenkinsfilePathAsConfigured(info) ==
  IF IsSome(info.jenkinsfile_path) THEN Val(info.jenkinsfile_path) ELSE <<>>

\* line 264: job_info['jenkinsfile_path'] or 'Jenkinsfile'
JenkinsfilePath(info) ==
  IF IsSome(info.jenkinsfile_path) THEN Val(info.jenkinsfile_path) ELSE <<"Jenkinsfile">>

\* lines 246-297 when no exception leaves them
ScriptSources(r, info) ==
  IF info.has_inline_script /\ IsSome(info.inline_script)
  THEN LET script_search ==
             search_parameter_in_text(Val(info.inline_script), parameter_name)
       IN IF script_search.found
          THEN [r EXCEPT !.found = TRUE,
                  !.sources = Append(@, InlineSource(script_search))]
          ELSE r
  ELSE IF UsesScm(info)
  THEN LET git_url == Val(info.git_url)
           path == JenkinsfilePath(info)
           r1 == [git_url |-> git_url, jenkinsfile_path |-> path] @@ r
           jenkinsfile_content == get_jenkinsfile_from_git(storage, git_url, path)
       IN IF IsSome(jenkinsfile_content) /\ Len(Val(jenkinsfile_content)) > 0
          THEN LET jenkinsfile_search ==
                     search_parameter_in_text(Val(jenkinsfile_content), parameter_name)
               IN IF jenkinsfile_search.found
                  THEN [r1 EXCEPT !.found = TRUE,
                          !.sources = Append(@, JenkinsfileSource(jenkinsfile_search,
                                                                  git_url, path))]
                  ELSE r1
          ELSE AttachNotFound(r1, git_url, path)
  ELSE r

\* the locator is called in the elif of line 262 only
CallsLocator(info) ==
  /\ ~(info.has_inline_script /\ IsSome(info.inline_script))
  /\ UsesScm(info)

\* A PermissionError of path.exists() leaves get_jenkinsfile_from_git,
\* analyze_job (line 266) and scan_all_jobs (line 373) and reaches the
\* handler of main (lines 522-525); lines 263-264 have run by then.
AnalyzeJobScript ==
  /\ pc = "script"
  /\ \E raises \in IF CallsLocator(job_info)
                    THEN ExistsRaises(storage, Val(job_info.git_url),
                                      JenkinsfilePath(job_info))
                    ELSE {FALSE} :
       IF raises
       THEN /\ result' = [git_url |-> Val(job_info.git_url),
                          jenkinsfile_path |-> JenkinsfilePath(job_info)] @@ result
            /\ raised' = Exception("PermissionError", "get_jenkinsfile_from_git")
            /\ pc' = "error"
       ELSE /\ result' = ScriptSources(result, job_info)
            /\ pc' = "xml_script"
            /\ UNCHANGED raised
  /\ UNCHANGED <<inputs, all_jobs, idx, results, config_xml, job_info,
                 xml_param_search, analyzed, report, returned,
                 unifiedVars, walkVars, unitVars>>

(***************************************************************************)
(* analyze_job, lines 299-310: the whole XML                               *)
(***************************************************************************)
HasLocation(sources, locs) == \E n \in 1..Len(sources) : sources[n].location \in locs

\* the note of a missing Jenkinsfile counts as a script source as well
ScriptBearingOrNoted ==
  {"inline_script", "jenkinsfile_from_git", "jenkinsfile_not_found"}

\* line 301: the sources that keep the fallback away
ScriptBearing == {"inline_script", "jenkinsfile_from_git"}

XmlScriptSource(search) ==
  [location |-> "xml_script", type |-> "usage", matches |-> Len(search.script_matches)]

\* the source is put in front of the sources already there
AttachXmlScriptFirst(r, search) ==
  [r EXCEPT !.found = TRUE, !.sources = <<XmlScriptSource(search)>> \o @]

\* lines 302-307
AttachXmlScript(r, search) ==
  [r EXCEPT !.found = TRUE, !.sources = Append(@, XmlScriptSource(search))]

AnalyzeJobXmlScript ==
  /\ pc = "xml_script"
  /\ result' =
       IF /\ xml_param_search.found_in_script
          /\ ~HasLocation(result.sources, ScriptBearing)
       THEN AttachXmlScript(result, xml_param_search)
       ELSE result
  /\ pc' = "collect"
  /\ UNCHANGED <<inputs, all_jobs, idx, results, config_xml, job_info,
                 xml_param_search, analyzed, report, returned,
                 unifiedVars, raised, walkVars, unitVars>>

(***************************************************************************)
(* scan_all_jobs, lines 370-378: keep the record analyze_job returned      *)
(***************************************************************************)
KeepsEvery(r) == TRUE

\* line 375
Keeps(r) == r.found

Collect ==
  /\ pc = "collect"
  /\ results' = IF Keeps(result) THEN Append(results, result) ELSE results
  /\ analyzed' = Append(analyzed, result)
  /\ idx' = idx + 1
  /\ pc' = IF idx < Len(all_jobs) THEN "analyze_job" ELSE "return"
  /\ UNCHANGED <<inputs, all_jobs, result, config_xml, job_info, xml_param_search,
                 report, returned, unifiedVars, raised, walkVars, unitVars>>

(***************************************************************************)
(* main, lines 513-514: scan_all_jobs returns, generate_enhanced_report    *)
(* receives the list (lines 389-456)                                       *)
(***************************************************************************)
Locations == <<"job_parameters", "inline_script", "jenkinsfile_from_git",
               "xml_script", "jenkinsfile_not_found">>

RECURSIVE CountSources(_, _, _)
CountSources(rs, n, loc) ==
  IF n > Len(rs) THEN 0
  ELSE Cardinality({k \in 1..Len(rs[n].sources) : rs[n].sources[k].location = loc})
         + CountSources(rs, n + 1, loc)

generate_enhanced_report(rs) ==
  [results |-> rs,
   by_location |-> [l \in 1..Len(Locations) |-> CountSources(rs, 1, Locations[l])],
   jenkinsfiles_not_found |->
     Cardinality({n \in 1..Len(rs) : HasLocation(rs[n].sources, {"jenkinsfile_not_found"})})]

GenerateEnhancedReport ==
  /\ pc = "return"
  /\ returned' = Append(returned, results)
  /\ report' = generate_enhanced_report(results)
  /\ pc' = "done"
  /\ UNCHANGED <<inputs, all_jobs, idx, results, result, config_xml, job_info,
                 xml_param_search, analyzed, unifiedVars, raised, walkVars,
                 unitVars>>

(***************************************************************************)
(* the scanner is run again against the same collaborators                 *)
(***************************************************************************)
RunAgain ==
  /\ pc = "done"
  /\ Len(returned) < MaxRuns
  /\ pc' = "main"
  /\ UNCHANGED <<inputs, all_jobs, idx, results, result, config_xml, job_info,
                 xml_param_search, analyzed, report, returned,
                 unifiedVars, raised, walkVars, unitVars>>

Next ==
  \/ ScanAllJobs
  \/ AnalyzeJobFetch
  \/ AnalyzeJobType
  \/ AnalyzeJobParameters
  \/ AnalyzeJobScript
  \/ AnalyzeJobXmlScript
  \/ Collect
  \/ GenerateEnhancedReport
  \/ RunAgain

Spec == Init /\ [][Next]_vars

\* one run of main() on a server with a single job
NextJob ==
  \/ ScanAllJobs
  \/ AnalyzeJobFetch
  \/ AnalyzeJobType
  \/ AnalyzeJobParameters
  \/ AnalyzeJobScript
  \/ AnalyzeJobXmlScript
  \/ Collect
  \/ GenerateEnhancedReport

InitSingleJob == InitJob /\ InitLocals /\ InitNoUnified /\ InitNoUnits

SpecJob == InitSingleJob /\ [][NextJob]_vars

(***************************************************************************)
(* EnhancedJenkinsScanner.get_all_jobs, lines 36-58, one step at a time.   *)
(* A frame of the recursion is                                             *)
(*   folder_path   the argument                                            *)
(*   at            "request" (lines 39-44), "loop" (46-53), "return" (58)  *)
(*   n             the child the loop is at                                *)
(*   jobs          the local list jobs                                     *)
(* The listing collaborator may hold upstream data that is no tree: a job  *)
(* or a folder listed twice, a folder listed in itself or in a descendant, *)
(* a folder whose request fails (jobs is then what the server holds and    *)
(* the walker never sees).                                                 *)
(***************************************************************************)
WalkRefs == {FolderRef(f) : f \in Folders} \cup {LeafRef(i) : i \in 1..MaxLeaves}

Listed(jobs) == [ok |-> TRUE, jobs |-> jobs]
Failing(jobs) == [ok |-> FALSE, jobs |-> jobs]

RootResponses ==
  {Failing(<<LeafRef(1)>>)} \cup {Listed(q) : q \in SeqsUpTo(WalkRefs, MaxLeaves)}

FolderResponses ==
  {Failing(<<LeafRef(2)>>), Listed(<<>>)}
    \cup {Listed(<<a>>) : a \in WalkRefs}
    \cup {Listed(<<a, b>>) : a \in WalkRefs, b \in WalkRefs}

InnerResponses ==
  {Failing(<<LeafRef(1)>>), Listed(<<>>)}
    \cup {Listed(<<a>>) : a \in WalkRefs \ {FolderRef("F2")}}

WalkListings ==
  { [p \in Paths |-> CASE p = "" -> r [] p = "F1" -> a [] OTHER -> b] :
      r \in RootResponses, a \in FolderResponses, b \in InnerResponses }

InitWalk ==
  /\ listing \in WalkListings
  /\ config = [u \in {LeafUrl(1)} |-> Unavailable]
  /\ storage = NoStorage
  /\ parameter_name = <<"X">>
  /\ InitLocals
  /\ InitNoUnified
  /\ InitNoUnits

Frame(folder_path) == [folder_path |-> folder_path, at |-> "request", n |-> 0, jobs |-> <<>>]

\* lines 42-44: the request succeeded and its body is a listing
ListingServed(response) == TRUE
ListingOk(response) == response.ok

\* line 364: scan_all_jobs calls get_all_jobs()
GetAllJobsCall ==
  /\ pc = "main"
  /\ stack' = <<Frame("")>>
  /\ listed' = <<>>
  /\ all_jobs' = <<>>
  /\ pc' = "get_all_jobs"
  /\ UNCHANGED <<inputs, idx, results, result, config_xml, job_info,
                 xml_param_search, analyzed, report, returned,
                 unifiedVars, raised, unitVars>>

\* lines 39-44, and the handler of lines 55-56 when the request fails
GetAllJobsRequest ==
  /\ pc = "get_all_jobs"
  /\ LET top == stack[Len(stack)] IN
     /\ top.at = "request"
     /\ listed' = Append(listed, top.folder_path)
     /\ stack' = [stack EXCEPT ![Len(stack)] =
                    IF ListingOk(listing[top.folder_path])
                    THEN [top EXCEPT !.at = "loop", !.n = 1]
                    ELSE [top EXCEPT !.at = "return"]]
  /\ UNCHANGED <<inputs, pc, all_jobs, idx, results, result, config_xml, job_info,
                 xml_param_search, analyzed, report, returned,
                 unifiedVars, raised, unitVars>>

\* lines 46-47, 52-53: a child that is no folder
GetAllJobsAppend ==
  /\ pc = "get_all_jobs"
  /\ LET top == stack[Len(stack)]
         children == listing[top.folder_path].jobs
     IN /\ top.at = "loop"
        /\ top.n <= Len(children)
        /\ ~IsFolderClass(children[top.n].class)
        /\ stack' = [stack EXCEPT ![Len(stack)] =
                       [top EXCEPT !.jobs = Append(@, children[top.n]), !.n = @ + 1]]
  /\ UNCHANGED <<inputs, pc, all_jobs, idx, results, result, config_xml, job_info,
                 xml_param_search, analyzed, report, returned,
                 unifiedVars, raised, listed, unitVars>>

\* lines 49-50: a folder; the call recurses.  At the interpreter's recursion
\* limit the call fails with RecursionError, which is an Exception: it is
\* caught by the handler of the callee (the child counts as empty) or by the
\* handler of this frame (the rest of its children is skipped), depending on
\* where the interpreter runs out of stack.
GetAllJobsRecurse ==
  /\ pc = "get_all_jobs"
  /\ LET top == stack[Len(stack)]
         children == listing[top.folder_path].jobs
     IN /\ top.at = "loop"
        /\ top.n <= Len(children)
        /\ IsFolderClass(children[top.n].class)
        /\ IF Len(stack) < RecursionLimit
           THEN stack' = Append(stack, Frame(children[top.n].url))
           ELSE \E caught \in {"callee", "caller"} :
                  stack' = [stack EXCEPT ![Len(stack)] =
                              IF caught = "callee"
                              THEN [top EXCEPT !.n = @ + 1]
                              ELSE [top EXCEPT !.at = "return"]]
  /\ UNCHANGED <<inputs, pc, all_jobs, idx, results, result, config_xml, job_info,
                 xml_param_search, analyzed, report, returned,
                 unifiedVars, raised, listed, unitVars>>

\* line 58, and line 51 in the caller: jobs.extend(sub_jobs)
GetAllJobsReturn ==
  /\ pc = "get_all_jobs"
  /\ LET top == stack[Len(stack)]
         children == listing[top.folder_path].jobs
     IN /\ \/ top.at = "return"
           \/ top.at = "loop" /\ top.n > Len(children)
        /\ IF Len(stack) > 1
           THEN LET caller == stack[Len(stack) - 1] IN
                /\ stack' = [SubSeq(stack, 1, Len(stack) - 1) EXCEPT ![Len(stack) - 1] =
                               [caller EXCEPT !.jobs = @ \o top.jobs, !.n = @ + 1]]
                /\ UNCHANGED <<pc, all_jobs>>
           ELSE /\ stack' = <<>>
                /\ all_jobs' = top.jobs
                /\ pc' = "walked"
  /\ UNCHANGED <<inputs, idx, results, result, config_xml, job_info,
                 xml_param_search, analyzed, report, returned,
                 unifiedVars, raised, listed, unitVars>>

NextWalk ==
  \/ GetAllJobsCall
  \/ GetAllJobsRequest
  \/ GetAllJobsAppend
  \/ GetAllJobsRecurse
  \/ GetAllJobsReturn

SpecWalk == InitWalk /\ [][NextWalk]_vars

(***************************************************************************)
(* main(), lines 505-525, on a batch of jobs some of which fail: the       *)
(* configuration cannot be fetched, does not parse, cannot be encoded, the *)
(* local file cannot be opened, its directory cannot be searched; the root *)
(* listing fails; the operator interrupts the scan.                        *)
(***************************************************************************)
FlatListing(response) ==
  [p \in Paths |-> IF p = "" THEN response ELSE Listed(<<>>)]

BatchListings ==
  {FlatListing(Failing(<<LeafRef(1)>>))}
    \cup {FlatListing(Listed([i \in 1..k |-> LeafRef(i)])) : k \in 0..MaxLeaves}

BatchResponses ==
  ScanResponses
    \cup {Served([d EXCEPT !.wellformed = FALSE]) :
            d \in {InlineDoc(Some(Usage("${N}", <<"X">>)), <<>>, <<>>)}}
    \cup {Served([BaseDoc EXCEPT !.desc = <<Surrogate>>])}

InitBatch ==
  /\ listing \in BatchListings
  /\ config \in [{LeafUrl(i) : i \in 1..MaxLeaves} -> BatchResponses]
  /\ storage \in {NoStorage, UnreadableStorage, DeniedStorage}
  /\ parameter_name = <<"X">>
  /\ InitLocals
  /\ InitNoUnified
  /\ InitNoUnits

\* KeyboardInterrupt is no Exception: raised while scan_all_jobs is at a job
\* (lines 370-376) it passes every handler of the scanner and reaches the
\* handler of main, lines 520-521, which prints a line and returns.
Interrupt ==
  /\ pc \in {"analyze_job", "classify", "job_parameters", "script", "xml_script",
             "collect"}
  /\ raised' = Exception("KeyboardInterrupt", "scan_all_jobs")
  /\ pc' = "cancelled"
  /\ UNCHANGED <<inputs, all_jobs, idx, results, result, config_xml, job_info,
                 xml_param_search, analyzed, report, returned, unifiedVars,
                 walkVars, unitVars>>

NextBatch ==
  \/ Next
  \/ Interrupt

SpecBatch == InitBatch /\ [][NextBatch]_vars

(***************************************************************************)
(* UnifiedScanner.generate_unified_report, lines 86-113: the cross         *)
(* analysis of the job records of scan_jobs and the repository records of  *)
(* scan_repositories.  Names are sequences of characters.                  *)
(***************************************************************************)
NameChars == {"a", "b", "B"}
RecordNames ==
  {<<c>> : c \in NameChars} \cup {<<"a", c>> : c \in NameChars} \cup {<<"B", "a">>}

JobRecords == {[job_name |-> nm] : nm \in RecordNames}
RepoRecords == {[repo_name |-> nm] : nm \in RecordNames}

InitUnified ==
  /\ jenkins_results \in SeqsUpTo(JobRecords, MaxJobRecords)
  /\ git_results \in SeqsUpTo(RepoRecords, MaxRepoRecords)
  /\ listing = SingleJobListing
  /\ config = [u \in {LeafUrl(1)} |-> Unavailable]
  /\ storage = NoStorage
  /\ parameter_name = <<"X">>

MatchingReposOneWay(git_repo_names, job_name) ==
  {repo \in git_repo_names : Contains(LowerStr(repo), LowerStr(job_name))}

\* line 94
MatchingRepos(git_repo_names, job_name) ==
  {repo \in git_repo_names :
     \/ Contains(LowerStr(repo), LowerStr(job_name))
     \/ Contains(LowerStr(job_name), LowerStr(repo))}

HasMatchRawNames(repo, jenkins_job_names) ==
  \E job_name \in jenkins_job_names :
    \/ Contains(repo, job_name)
    \/ Contains(job_name, repo)

\* line 106, over the lower-cased job names of line 102
HasMatch(repo, jenkins_job_names) ==
  \E job_name \in jenkins_job_names :
    \/ Contains(LowerStr(repo), job_name)
    \/ Contains(job_name, LowerStr(repo))

generate_unified_report(jr, gr) ==
  LET git_repo_names == IF Len(gr) > 0 THEN {gr[n].repo_name : n \in DOMAIN gr} ELSE {}
      matching == [n \in DOMAIN jr |-> MatchingRepos(git_repo_names, jr[n].job_name)]
      jenkins_job_names == {LowerStr(jr[n].job_name) : n \in DOMAIN jr}
  IN [matching |-> matching,
      unmatched_jobs |-> {n \in DOMAIN jr : matching[n] = {}},
      orphan_repos |-> {repo \in git_repo_names : ~HasMatch(repo, jenkins_job_names)}]

GenerateUnifiedReport ==
  /\ pc = "main"
  /\ unified' = generate_unified_report(jenkins_results, git_results)
  /\ pc' = "done"
  /\ UNCHANGED <<inputs, all_jobs, idx, results, result, config_xml, job_info,
                 xml_param_search, analyzed, report, returned, jenkins_results,
                 git_results, walkVars, raised, unitVars>>

NextUnified == GenerateUnifiedReport

InitReport == InitUnified /\ InitLocals /\ InitNoUnits

SpecUnified == InitReport /\ [][NextUnified]_vars

(***************************************************************************)
(* EnhancedJenkinsScanner.search_parameter_in_text, lines 153-206, run on  *)
(* its own: on no text (None), on the empty text, on scripts with and      *)
(* without a declaration and with up to two usages.                        *)
(***************************************************************************)
MatcherTexts ==
  {None} \cup {Some(t) : t \in Scripts}
    \cup {Some(Join(u, v)) : u \in Usages, v \in Usages}

\* the scanner is idle: nothing is listed, fetched or stored
InitNoScan ==
  /\ listing = SingleJobListing
  /\ config = [u \in {LeafUrl(1)} |-> Unavailable]
  /\ storage = NoStorage

InitMatcher ==
  /\ matcher_text \in MatcherTexts
  /\ matcher_result = None
  /\ parameter_name \in ParamNames
  /\ InitNoScan
  /\ InitLocals
  /\ InitNoUnified
  /\ InitNoLocator
  /\ InitNoExport

\* line 164: "not text" holds for None and for the empty text
TextOrEmpty(o) == IF IsSome(o) THEN Val(o) ELSE <<>>

SearchParameterInText ==
  /\ pc = "main"
  /\ matcher_result' =
       Some(search_parameter_in_text(TextOrEmpty(matcher_text), parameter_name))
  /\ pc' = "done"
  /\ UNCHANGED <<inputs, all_jobs, idx, results, result, config_xml, job_info,
                 xml_param_search, analyzed, report, returned, unifiedVars,
                 raised, walkVars, matcher_text, locatorVars, configs>>

NextMatcher == SearchParameterInText

SpecMatcher == InitMatcher /\ [][NextMatcher]_vars

(***************************************************************************)
(* EnhancedJenkinsScanner.get_jenkinsfile_from_git, lines 126-151, run on  *)
(* its own.  What the call leaves behind is                                *)
(*   repo_name   the local of line 135 (None when line 131 returned)       *)
(*   raised      an exception left the call                                *)
(*   value       the value returned (None: not found)                      *)
(***************************************************************************)
\* URLs whose last segment holds ".git" elsewhere than at its end
DottedUrls ==
  { <<"https://git.example.com", "/", "org", "/", "my", ".git", "hub-tools">>,
    <<"https://git.example.com", "/", "org", "/", "my", ".git", "hub-tools", ".git">> }

LocatorUrls == GitUrls \cup DottedUrls

LocatorStorages ==
  Storages
    \cup { Stored({File(<<"my", ".git", "hub-tools">>, <<"Jenkinsfile">>, TRUE, <<"echo">>)}, {}),
           Stored({File(<<"Repo">>, <<"Jenkinsfile">>, TRUE, <<"echo">>),
                   File(<<"repo">>, <<"Jenkinsfile">>, TRUE, Usage("${N}", <<"X">>))}, {}) }

InitLocator ==
  /\ storage \in LocatorStorages
  /\ locator_url \in LocatorUrls
  /\ locator_path \in FilePaths
  /\ located = None
  /\ listing = SingleJobListing
  /\ config = [u \in {LeafUrl(1)} |-> Unavailable]
  /\ parameter_name = <<"X">>
  /\ InitLocals
  /\ InitNoUnified
  /\ InitNoMatcher
  /\ InitNoExport

\* lines 130-131 return before line 135 is reached
ReachesRepoName(fs) == fs.configured /\ fs.exists

GetJenkinsfileFromGit ==
  /\ pc = "main"
  /\ \E raises \in ExistsRaises(storage, locator_url, locator_path) :
       located' =
         Some([repo_name |-> IF ReachesRepoName(storage)
                             THEN Some(RepoName(locator_url)) ELSE None,
               raised |-> raises,
               value |-> IF raises THEN None
                         ELSE get_jenkinsfile_from_git(storage, locator_url,
                                                       locator_path)])
  /\ pc' = "done"
  /\ UNCHANGED <<inputs, all_jobs, idx, results, result, config_xml, job_info,
                 xml_param_search, analyzed, report, returned, unifiedVars,
                 raised, walkVars, matcherVars, locator_url, locator_path,
                 configs>>

NextLocator == GetJenkinsfileFromGit

SpecLocator == InitLocator /\ [][NextLocator]_vars

(***************************************************************************)
(* The config export: JenkinsConfigExporter.export_all_configs with        *)
(* export_job_config, and JenkinsCompleteScanner.scan_all with the export  *)
(* of analyze_job (lines 90-99).  Both write {configs}/{safe_name}.xml for *)
(* every job whose configuration is served; configs is the directory of    *)
(* one run, created empty, a set of files [name, content].  Job names are  *)
(* sequences of characters, unique within a folder; of a record the fields *)
(* that the export writes are kept.                                        *)
(***************************************************************************)
ExportNames ==
  { <<"build">>, <<"a", " ", "b">>, <<"a", "_", "b">>, <<"a", "\"", "b">> }

ExportRef(i, name) == [name |-> name, url |-> LeafUrl(i), class |-> PipelineJobClass]

\* the configuration of job i, different for each job
ExportDoc(i) == [BaseDoc EXCEPT !.desc = <<LeafUrl(i)>>]

\* jobs 1..k, each with a name and a folder: the root or F1
ExportPlacements ==
  UNION { { pl \in [1..k -> [name : ExportNames, parent : {"", "F1"}]] :
              \A i, j \in 1..k : pl[i] = pl[j] => i = j } :
          k \in 0..MaxLeaves }

RECURSIVE ExportChildren(_, _, _)
ExportChildren(pl, p, i) ==
  IF i > Len(pl) THEN <<>>
  ELSE (IF pl[i].parent = p THEN <<ExportRef(i, pl[i].name)>> ELSE <<>>)
         \o ExportChildren(pl, p, i + 1)

ExportListing(pl) ==
  [p \in Paths |->
     CASE p = "" -> Listed(ExportChildren(pl, "", 1) \o <<FolderRef("F1")>>)
       [] p = "F1" -> Listed(ExportChildren(pl, "F1", 1))
       [] OTHER -> Listed(<<>>)]

InitExport ==
  /\ listing \in {ExportListing(pl) : pl \in ExportPlacements}
  /\ config \in [{LeafUrl(i) : i \in 1..MaxLeaves} ->
                    {Unavailable} \cup {Served(ExportDoc(i)) : i \in 1..MaxLeaves}]
  /\ \A i \in 1..MaxLeaves :
       config[LeafUrl(i)] \in {Unavailable, Served(ExportDoc(i))}
  /\ storage = NoStorage
  /\ parameter_name = <<"X">>
  /\ InitLocals
  /\ InitNoUnified
  /\ InitNoMatcher
  /\ InitNoLocator
  /\ InitNoExport

\* str.replace(c, '_') for every character c of chars
ReplaceChars(name, chars) ==
  [k \in 1..Len(name) |-> IF name[k] \in chars THEN "_" ELSE name[k]]

\* jenkins_config_exporter.py, lines 80-85
sanitize_filename(name) ==
  ReplaceChars(name, {"<", ">", ":", "\"", "/", "\\", "|", "?", "*"})

\* complete_scanner.py, line 94
safe_name(job_name) == ReplaceChars(job_name, {"/", " "})

\* open(config_file, 'w') and f.write(config_xml): the file is created, or
\* truncated when it is there, and then holds config_xml
WriteFile(files, name, content) ==
  {f \in files : f.name # name} \cup {[name |-> name, content |-> content]}

\* export_all_configs, lines 177-184
ExportAllConfigs ==
  /\ pc = "main"
  /\ all_jobs' = get_all_jobs(listing, "")
  /\ results' = <<>>
  /\ idx' = 1
  /\ pc' = IF Len(get_all_jobs(listing, "")) >= 1 THEN "export_job_config" ELSE "done"
  /\ UNCHANGED <<inputs, result, config_xml, job_info, xml_param_search, analyzed,
                 report, returned, unifiedVars, raised, walkVars, matcherVars,
                 locatorVars, configs>>

\* export_job_config, lines 94-119 and 159, and lines 190-191 of the loop
ExportJobConfig ==
  /\ pc = "export_job_config"
  /\ LET job == all_jobs[idx]
         xml == get_job_config(config[job.url])
         name == sanitize_filename(job.name) \o <<".xml">>
     IN /\ config_xml' = xml
        /\ configs' = IF Len(xml) = 0 THEN configs ELSE WriteFile(configs, name, xml)
        /\ result' = [job_name |-> job.name, job_url |-> job.url,
                      status |-> IF Len(xml) = 0 THEN "failed" ELSE "success",
                      config_file |-> IF Len(xml) = 0 THEN None ELSE Some(name)]
        /\ results' = Append(results, result')
  /\ idx' = idx + 1
  /\ pc' = IF idx < Len(all_jobs) THEN "export_job_config" ELSE "done"
  /\ UNCHANGED <<inputs, all_jobs, job_info, xml_param_search, analyzed, report,
                 returned, unifiedVars, raised, walkVars, matcherVars,
                 locatorVars>>

\* scan_all, lines 208-215
ScanAll ==
  /\ pc = "main"
  /\ all_jobs' = get_all_jobs(listing, "")
  /\ results' = <<>>
  /\ idx' = 1
  /\ pc' = IF Len(get_all_jobs(listing, "")) >= 1 THEN "complete_analyze_job" ELSE "done"
  /\ UNCHANGED <<inputs, result, config_xml, job_info, xml_param_search, analyzed,
                 report, returned, unifiedVars, raised, walkVars, matcherVars,
                 locatorVars, configs>>

\* JenkinsCompleteScanner.analyze_job, lines 77-99 and 108, and lines
\* 220-221 of the loop
CompleteAnalyzeJob ==
  /\ pc = "complete_analyze_job"
  /\ LET job == all_jobs[idx]
         xml == get_job_config(config[job.url])
         name == safe_name(job.name) \o <<".xml">>
     IN /\ config_xml' = xml
        /\ configs' = IF Len(xml) = 0 THEN configs ELSE WriteFile(configs, name, xml)
        /\ result' = [job_name |-> job.name, job_url |-> job.url,
                      config_exported |-> Len(xml) > 0,
                      config_file |-> IF Len(xml) = 0 THEN None ELSE Some(name)]
        /\ results' = Append(results, result')
  /\ idx' = idx + 1
  /\ pc' = IF idx < Len(all_jobs) THEN "complete_analyze_job" ELSE "done"
  /\ UNCHANGED <<inputs, all_jobs, job_info, xml_param_search, analyzed, report,
                 returned, unifiedVars, raised, walkVars, matcherVars,
                 locatorVars>>

NextExport ==
  \/ ExportAllConfigs
  \/ ExportJobConfig
  \/ ScanAll
  \/ CompleteAnalyzeJob

SpecExport == InitExport /\ [][NextExport]_vars

(***************************************************************************)
(* Properties                                                              *)
(***************************************************************************)
Range(q) == {q[n] : n \in DOMAIN q}

\* the folders reachable from the root, and the leaf jobs listed in them
RECURSIVE ReachablePaths(_, _)
ReachablePaths(P, k) ==
  IF k = 0 THEN P
  ELSE ReachablePaths(
         P \cup ({j.url : j \in UNION {Range(listing[p].jobs) : p \in P}} \cap Folders),
         k - 1)

LeafUrls ==
  {j.url : j \in UNION {Range(listing[p].jobs) :
                          p \in ReachablePaths({""}, Cardinality(Folders))}} \ Folders

RecordsOf(out, u) == {k \in DOMAIN out : out[k].job_url = u}

\* the records analyze_job has returned, and the one it is building
Records == Range(analyzed) \cup (IF "job_url" \in DOMAIN result THEN {result} ELSE {})

PositiveLocations == {"job_parameters", "inline_script", "jenkinsfile_from_git", "xml_script"}

C2_FetchFailure ==
  /\ \A r \in Records :
       ~config[r.job_url].available =>
         /\ r.found = FALSE
         /\ r.sources = <<>>
         /\ "job_type" \notin DOMAIN r
  /\ pc \in {"classify", "job_parameters", "script", "xml_script"} =>
       config[all_jobs[idx].url].available
  /\ (pc = "collect" /\ config_xml = <<>>) =>
       /\ job_info = DefaultJobInfo
       /\ xml_param_search = NoSearch

C2_Witness ==
  /\ pc = "done"
  /\ \E r \in Range(analyzed) : ~config[r.job_url].available

\* C3: in every record of analyze_job, found is TRUE exactly when a source
\* with positive evidence is attached; a record whose only source is
\* jenkinsfile_not_found has found = FALSE.
C3_FoundIffEvidence ==
  \A r \in Records :
    /\ r.found <=> HasLocation(r.sources, PositiveLocations)
    /\ (\A n \in DOMAIN r.sources : r.sources[n].location = "jenkinsfile_not_found")
         => ~r.found

C3_Witness ==
  /\ \E r \in Range(analyzed) :
       /\ Len(r.sources) = 1
       /\ r.sources[1].location = "jenkinsfile_not_found"
       /\ ~r.found

\* the document served for the job of record r
DocOf(r) == config[r.job_url].doc

IsInlineJob(r) ==
  /\ config[r.job_url].available
  /\ DocOf(r).wellformed
  /\ DocOf(r).root = "flow-definition"
  /\ DocOf(r).defClass = Some(InlineClass)
  /\ IsSome(ElemText(DocOf(r).script))

IsScmJob(r) ==
  /\ config[r.job_url].available
  /\ DocOf(r).wellformed
  /\ DocOf(r).root = "flow-definition"
  /\ DocOf(r).defClass = Some(ScmClass)

SourcesAt(r, loc) == {src \in Range(r.sources) : src.location = loc}

\* C4: the record of an inline-pipeline job whose script declares the
\* parameter with a typed declaration carries an inline_script source with
\* the defined flag set, also when the script has no usage idiom; a script
\* that only holds the bare reference ${P} gives an inline_script source
\* with the defined flag unset and a usage count of at least 1.
C4_InlineDeclaration ==
  \A r \in Range(analyzed) :
    IsInlineJob(r) =>
      LET script == Val(DocOf(r).script) IN
      /\ (\E f \in {"string", "booleanParam"} :
            Contains(Declaration(f, parameter_name), script))
           => \E src \in SourcesAt(r, "inline_script") : src.defined_in_script
      /\ script = Usage("${N}", parameter_name)
           => \E src \in SourcesAt(r, "inline_script") :
                ~src.defined_in_script /\ src.matches >= 1

\* the script path the resolver looks up for document d
PathOf(d) == IF IsSome(ElemText(d.scriptPath)) THEN Val(d.scriptPath) ELSE <<"Jenkinsfile">>

\* the repository file of document d cannot be resolved on the local storage
Unresolvable(d) ==
  \/ ~IsSome(ElemText(d.url))
  \/ get_jenkinsfile_from_git(storage, Val(d.url), PathOf(d)) = None

FoundByOthers(r) ==
  LET search == search_parameter_in_xml(Raw(DocOf(r)), parameter_name)
  IN search.found_in_parameters \/ search.found_in_script

C6_NotFoundReported ==
  pc = "done" =>
    \A r \in Range(analyzed) :
      SourcesAt(r, "jenkinsfile_not_found") # {} =>
        /\ r \in Range(returned[Len(returned)])
        /\ r \in Range(report.results)

\* C7: the name is matched verbatim in both passes: a usage is counted only
\* where the text holds the searched name in the same letter case, and the
\* defined flag is set only by a declaration whose name argument is the
\* searched name exactly (the keyword may be in any case).
C7_NameVerbatim ==
  \A r \in Range(analyzed) :
    IsInlineJob(r) =>
      LET script == Val(DocOf(r).script) IN
      \A src \in SourcesAt(r, "inline_script") :
        /\ src.matches >= 1 => Contains(parameter_name, script)
        /\ src.defined_in_script =>
             \E f \in DeclForms : Contains(Declaration(f, parameter_name), script)

IsPieceOf(a, b) ==
  \E i \in 0..Len(b) : \E j \in i..Len(b) : SubSeq(b, i + 1, j) = a

\* the correlation of a job name and a repository name
Correlated(job_name, repo_name) ==
  \/ IsPieceOf(LowerStr(job_name), LowerStr(repo_name))
  \/ IsPieceOf(LowerStr(repo_name), LowerStr(job_name))

RepoNamesScanned == {git_results[n].repo_name : n \in DOMAIN git_results}

\* C8: the report correlates a job and a repository exactly when, both names
\* lower-cased, one is a piece of the other, in either direction.
C8_SubstringEitherWay ==
  pc = "done" =>
    /\ DOMAIN unified.matching = DOMAIN jenkins_results
    /\ \A n \in DOMAIN jenkins_results : \A repo \in RecordNames :
         repo \in unified.matching[n]
           <=> /\ repo \in RepoNamesScanned
               /\ Correlated(jenkins_results[n].job_name, repo)

C8_Witness ==
  /\ pc = "done"
  /\ \E n \in DOMAIN jenkins_results : \E repo \in unified.matching[n] :
       /\ Len(repo) > Len(jenkins_results[n].job_name)
       /\ ~Contains(jenkins_results[n].job_name, repo)
  /\ \E n \in DOMAIN jenkins_results : unified.matching[n] = {}

\* C9: a job is reported without repository exactly when no scanned
\* repository correlates with it, a repository is reported orphan exactly
\* when no job correlates with it, hence exactly when no job lists it among
\* its matching repositories; the report changes neither input list.
C9_DerivedSetsConsistent ==
  /\ [](pc = "done" =>
          /\ \A n \in DOMAIN jenkins_results :
               n \in unified.unmatched_jobs
                 <=> ~\E repo \in RepoNamesScanned :
                        Correlated(jenkins_results[n].job_name, repo)
          /\ unified.orphan_repos \subseteq RepoNamesScanned
          /\ \A repo \in RepoNamesScanned :
               /\ repo \in unified.orphan_repos
                    <=> ~\E n \in DOMAIN jenkins_results :
                           Correlated(jenkins_results[n].job_name, repo)
               /\ repo \in unified.orphan_repos
                    <=> \A n \in DOMAIN jenkins_results : repo \notin unified.matching[n])
  /\ [][jenkins_results' = jenkins_results /\ git_results' = git_results]_vars

C9_Witness ==
  /\ pc = "done"
  /\ Len(jenkins_results) >= 2
  /\ unified.orphan_repos # {}
  /\ \E n \in DOMAIN jenkins_results :
       \E repo \in RepoNamesScanned :
         LowerStr(repo) # repo /\ ~Correlated(jenkins_results[n].job_name, repo)

\* the folder paths a walk expands: the root, and every folder listed in an
\* expanded folder whose request succeeds
RECURSIVE ExpandedPaths(_, _)
ExpandedPaths(P, k) ==
  IF k = 0 THEN P
  ELSE ExpandedPaths(
         P \cup ({j.url : j \in UNION {Range(listing[p].jobs) :
                                         p \in {q \in P : listing[q].ok}}}
                   \cap Folders),
         k - 1)

Expanded == ExpandedPaths({""}, Cardinality(Folders))
Answered == {p \in Expanded : listing[p].ok}

\* the places <<folder path, index>> the walk is shown the url u at
PlacesOf(u) ==
  UNION { {<<p, n>> : n \in {m \in DOMAIN listing[p].jobs : listing[p].jobs[m].url = u}} :
            p \in Answered }

RefsShown == UNION {Range(listing[p].jobs) : p \in Answered}
LeavesShown == {j \in RefsShown : j.url \notin Folders}

\* no job and no folder is shown twice: what the walk sees is a tree
EachShownOnce == \A j \in RefsShown : Cardinality(PlacesOf(j.url)) = 1

IsTree == EachShownOnce /\ \A p \in Expanded : listing[p].ok

\* the child indices on the way from the root to u
RECURSIVE PositionOf(_)
PositionOf(u) ==
  IF u = "" THEN <<>>
  ELSE LET place == CHOOSE x \in PlacesOf(u) : TRUE
       IN PositionOf(place[1]) \o <<place[2]>>

\* a comes before b in the depth-first order
Precedes(a, b) ==
  \E k \in 1..Len(a) :
    /\ k <= Len(b)
    /\ SubSeq(a, 1, k - 1) = SubSeq(b, 1, k - 1)
    /\ a[k] < b[k]

InDepthFirstOrder(jobs) ==
  /\ Range(jobs) = LeavesShown
  /\ \A i, j \in DOMAIN jobs :
       i < j => Precedes(PositionOf(jobs[i].url), PositionOf(jobs[j].url))

\* C11: on a folder tree all of whose listings succeed, get_all_jobs returns
\* exactly the non-folder jobs reachable from the root, no folder entry, in
\* depth-first first-encounter order: the leaves of a folder stand at the
\* place of that folder among its siblings.
C11_DepthFirstLeaves ==
  (pc = "walked" /\ IsTree) =>
    /\ \A n \in DOMAIN all_jobs :
         /\ all_jobs[n].url \notin Folders
         /\ all_jobs[n].class \notin {FolderClass, OrgFolderClass}
    /\ InDepthFirstOrder(all_jobs)

C11_Witness ==
  /\ pc = "walked"
  /\ IsTree
  /\ Len(listing[""].jobs) = 2
  /\ listing[""].jobs[1] = FolderRef("F1")
  /\ listing[""].jobs[2].url \notin Folders
  /\ listing["F1"].jobs = <<FolderRef("F2")>>
  /\ Len(listing["F2"].jobs) = 1
  /\ all_jobs = listing["F2"].jobs \o <<listing[""].jobs[2]>>

\* C12: the list get_all_jobs returns holds no job url twice, also when the
\* listing shows a job or a folder under several parents or several times in
\* one folder.
C12_NoDuplicates ==
  pc = "walked" =>
    \A i, j \in DOMAIN all_jobs : all_jobs[i].url = all_jobs[j].url => i = j

\* C13: a listing failure at a folder is handled in the call for that
\* folder, which returns no jobs; the walk goes on, and every leaf job the
\* other folders show is returned, in its place.
C13_ListingFailureLocal ==
  /\ \A k \in DOMAIN stack :
       ~listing[stack[k].folder_path].ok =>
         stack[k].at \in {"request", "return"} /\ stack[k].jobs = <<>>
  /\ (pc = "walked" /\ EachShownOnce /\ Answered # Expanded) =>
       InDepthFirstOrder(all_jobs)

C13_Witness ==
  /\ pc = "walked"
  /\ EachShownOnce
  /\ listing[""].jobs = <<FolderRef("F1"), FolderRef("F2")>>
  /\ ~listing["F1"].ok
  /\ listing["F2"].ok
  /\ Len(all_jobs) = 1
  /\ all_jobs = listing["F2"].jobs

\* C14: the walk lists every folder path at most once, also when a folder
\* is listed in itself or in one of its descendants.
C14_EachPathListedOnce ==
  \A i, j \in DOMAIN listed : listed[i] = listed[j] => i = j

\* the text served for document d is accepted by the XML parser
Parses(d) == d.wellformed /\ CanEncode(Raw(d))

\* analyze_job is past the classifier, for a job whose configuration was fetched
Classified ==
  /\ pc \in {"job_parameters", "script", "xml_script", "collect"}
  /\ config_xml # <<>>

\* C15: the classifier fails softly: on a configuration that cannot be
\* parsed analyze_job_type returns type unknown, no inline script, no
\* repository URL and no script path, and on no document does an exception
\* leave it.
C15_ClassifierFailsSoftly ==
  /\ IsSome(raised) => Val(raised).function # "analyze_job_type"
  /\ (Classified /\ ~Parses(config[all_jobs[idx].url].doc)) =>
       /\ job_info = DefaultJobInfo
       /\ result.job_type = "unknown"

\* C16: a failure at one job (its configuration cannot be fetched or cannot
\* be parsed, its local file cannot be read) never ends the batch: no
\* exception reaches main, and when scan_all_jobs returns every discovered
\* job has been analysed, a failing one with a negative or partial record.
C16_BatchNeverAborts ==
  /\ pc # "error"
  /\ pc \in {"return", "done"} =>
       /\ Len(analyzed) = Len(all_jobs)
       /\ \A n \in DOMAIN all_jobs :
            LET r == analyzed[n] IN
            /\ r.job_url = all_jobs[n].url
            /\ ~config[r.job_url].available => (~r.found /\ r.sources = <<>>)
            /\ (config[r.job_url].available /\ ~DocOf(r).wellformed) =>
                 r.job_type = "unknown"

\* C17: after an interrupt during the scan no configuration is fetched any
\* more, and the records collected before it are handed to the reporter.
C17_PartialResultsOnInterrupt ==
  (pc = "cancelled" /\ results # <<>>) =>
    /\ returned # <<>>
    /\ returned[Len(returned)] = results
    /\ report.results = results

\* C18: when the listing of the root folder fails, the outcome of the scan
\* says so: it differs from the outcome of a scan of a server without jobs,
\* which is the ordinary empty report and no exception.
C18_RootFailureExplicit ==
  (pc = "done" /\ ~listing[""].ok) =>
    \/ IsSome(raised)
    \/ report # generate_enhanced_report(<<>>)
    \/ returned[Len(returned)] # <<>>

\* C19: the classifier's result is decided by the root element and the
\* class of the definition alone: flow-definition is a pipeline, inline for
\* CpsFlowDefinition, SCM-backed for CpsScmFlowDefinition, never both;
\* project and maven2-moduleset are freestyle without a script source; any
\* other root is unknown.
C19_ClassifierByRootAndClass ==
  (Classified /\ Parses(config[all_jobs[idx].url].doc)) =>
    LET d == config[all_jobs[idx].url].doc
        inline == job_info.has_inline_script
        scm == job_info.scm_type = Some("scm")
    IN /\ d.root = "flow-definition" =>
            /\ job_info.type = "pipeline"
            /\ inline <=> d.defClass = Some(InlineClass)
            /\ scm <=> d.defClass = Some(ScmClass)
       /\ d.root \in {"project", "maven2-moduleset"} =>
            job_info.type = "freestyle" /\ ~inline /\ ~scm
       /\ d.root \notin {"flow-definition", "project", "maven2-moduleset"} =>
            job_info.type = "unknown" /\ ~inline /\ ~scm
       /\ ~(inline /\ scm)
       /\ job_info.scm_type \in {None, Some("scm")}
       /\ ~inline => job_info.inline_script = None
       /\ ~scm => job_info.git_url = None /\ job_info.jenkinsfile_path = None
       /\ result.job_type = job_info.type

C19_Witness ==
  /\ pc = "collect"
  /\ config[all_jobs[idx].url].available
  /\ LET d == config[all_jobs[idx].url].doc IN
     /\ Parses(d)
     /\ d.root = "project"
     /\ d.defClass = Some(ScmClass)
     /\ IsSome(d.url)
  /\ job_info.type = "freestyle"
  /\ job_info.scm_type = None

NoEvidence ==
  [found |-> FALSE, matches |-> <<>>, has_parameters_block |-> FALSE,
   defined_as_parameter |-> FALSE]

\* C21: the matcher reports the parameter as found in a text exactly when the
\* declaration pass is positive or the usage pass has a match, and on no
\* text or the empty text it returns the zero-evidence result.
C21_FoundIffEitherPass ==
  IsSome(matcher_result) =>
    LET r == Val(matcher_result) IN
    /\ r.found <=> (r.defined_as_parameter \/ Len(r.matches) > 0)
    /\ matcher_text \in {None, Some(<<>>)} => r = NoEvidence

\* the places of text t where idiom n of the usage pass matches
UsagePlaces(t, n) ==
  {i \in 1..Len(t) : MatchAt(usage_patterns(parameter_name)[n], t, i, FALSE) > 0}

\* C22: the usage pass does not deduplicate: the number of entries is the
\* sum over the four idioms of the places the idiom matches at, there is one
\* entry per idiom and place, "$NAME =" gives an entry of the first and one
\* of the fourth idiom, and the offset of an entry is the place of its match
\* in the whole text, counted from 0.
C22_UsageNotDeduplicated ==
  IsSome(matcher_result) =>
    LET r == Val(matcher_result)
        t == TextOrEmpty(matcher_text)
    IN /\ Len(r.matches)
            = Cardinality(UsagePlaces(t, 1)) + Cardinality(UsagePlaces(t, 2))
                + Cardinality(UsagePlaces(t, 3)) + Cardinality(UsagePlaces(t, 4))
       /\ \A n \in 1..4 : \A i \in UsagePlaces(t, n) :
            Cardinality({m \in DOMAIN r.matches :
                           /\ r.matches[m].pattern = n
                           /\ r.matches[m].position = i - 1}) = 1
       /\ \A i \in 1..Len(t) :
            OccursAt(Usage("$N =", parameter_name), t, i) =>
              /\ \E m \in DOMAIN r.matches :
                   r.matches[m].pattern = 1 /\ r.matches[m].position = i - 1
              /\ \E m \in DOMAIN r.matches :
                   r.matches[m].pattern = 4 /\ r.matches[m].position = i

C22_Witness ==
  /\ IsSome(matcher_result)
  /\ IsSome(matcher_text)
  /\ Val(matcher_text)
       = Join(Usage("params.N", parameter_name), Usage("$N =", parameter_name))
  /\ Len(Val(matcher_result).matches) = 3
  /\ \E m \in DOMAIN Val(matcher_result).matches :
       /\ Val(matcher_result).matches[m].pattern = 4
       /\ Val(matcher_result).matches[m].position = 4

\* the checks of steps 3 and 6 on the text served for the job of record r
XmlSearchOf(r) == search_parameter_in_xml(Raw(DocOf(r)), parameter_name)

\* the file the locator resolves for the SCM-backed job of record r
LocatedFor(r) ==
  IF IsSome(ElemText(DocOf(r).url))
  THEN get_jenkinsfile_from_git(storage, Val(DocOf(r).url), PathOf(DocOf(r)))
  ELSE None

\* C23: the steps are not short-circuited: a job whose XML parameter block
\* defines the parameter and whose inline script, or located Jenkinsfile,
\* matches as well has a record with the job_parameters source and the
\* source of the script.
C23_StepsNotShortCircuited ==
  \A r \in Range(analyzed) :
    (config[r.job_url].available /\ XmlSearchOf(r).found_in_parameters) =>
      /\ SourcesAt(r, "job_parameters") # {}
      /\ (/\ IsInlineJob(r)
          /\ search_parameter_in_text(Val(DocOf(r).script), parameter_name).found)
           => SourcesAt(r, "inline_script") # {}
      /\ (/\ IsScmJob(r)
          /\ IsSome(LocatedFor(r))
          /\ search_parameter_in_text(Val(LocatedFor(r)), parameter_name).found)
           => SourcesAt(r, "jenkinsfile_from_git") # {}

C23_Witness ==
  \E r \in Range(analyzed) :
    /\ IsInlineJob(r)
    /\ DocOf(r).params # <<>>
    /\ Len(r.sources) = 2
    /\ r.sources[1].location = "job_parameters"
    /\ r.sources[2].location = "inline_script"

\* C24: the xml_script source is attached exactly when the usage idioms
\* match somewhere in the whole configuration and the record has neither an
\* inline_script nor a jenkinsfile_from_git source; a jenkinsfile_not_found
\* note or a job_parameters source does not keep it away.
C24_FallbackIffNoScriptSource ==
  \A r \in Range(analyzed) :
    config[r.job_url].available =>
      /\ SourcesAt(r, "xml_script") # {}
           <=> /\ XmlSearchOf(r).found_in_script
               /\ SourcesAt(r, "inline_script") = {}
               /\ SourcesAt(r, "jenkinsfile_from_git") = {}
      /\ \A src \in SourcesAt(r, "xml_script") :
           src.matches = Len(XmlSearchOf(r).script_matches)

C24_Witness ==
  \E r \in Range(analyzed) :
    /\ SourcesAt(r, "job_parameters") # {}
    /\ SourcesAt(r, "jenkinsfile_not_found") # {}
    /\ SourcesAt(r, "xml_script") # {}

\* C25: for an SCM-backed job the jenkinsfile_not_found note is attached
\* only when the locator fails: when the locator resolves the file, an empty
\* file included, the matcher decides on the fetched content and the record
\* has no jenkinsfile_not_found source.
C25_NotFoundOnlyOnLocatorFailure ==
  \A r \in Range(analyzed) :
    (IsScmJob(r) /\ IsSome(LocatedFor(r))) =>
      /\ SourcesAt(r, "jenkinsfile_not_found") = {}
      /\ SourcesAt(r, "jenkinsfile_from_git") # {}
           <=> search_parameter_in_text(Val(LocatedFor(r)), parameter_name).found

\* the last segment of the URL without a ".git" at its end
NameWithoutSuffix(url) ==
  LET segment == LastSegment(RStrip(url, "/"), "/") IN
  IF Len(segment) > 0 /\ segment[Len(segment)] = ".git"
  THEN SubSeq(segment, 1, Len(segment) - 1)
  ELSE segment

\* the file at {root}/{name}/{path} can be read
ReadableAt(name, path) ==
  \E f \in storage.files : f.repo = name /\ f.path = path /\ f.readable

ContentAt(name, path) ==
  (CHOOSE f \in storage.files : f.repo = name /\ f.path = path /\ f.readable).content

\* C26: the locator probes {root}/{name}/{path} first and
\* {root}/{lowercase(name)}/{path} second and returns the content of the
\* first candidate that can be read, skipping one that exists and cannot be
\* read; without a root, with a root that does not exist and when neither
\* candidate resolves it returns not-found, and no exception leaves it.
C26_LocatorNeverRaises ==
  IsSome(located) =>
    LET out == Val(located)
        name == RepoName(locator_url)
    IN /\ ~out.raised
       /\ out.value =
            IF ~storage.configured \/ ~storage.exists THEN None
            ELSE IF ReadableAt(name, locator_path)
            THEN Some(ContentAt(name, locator_path))
            ELSE IF ReadableAt(LowerStr(name), locator_path)
            THEN Some(ContentAt(LowerStr(name), locator_path))
            ELSE None

\* C27: the candidate folder name is the last path segment of the URL with
\* only a ".git" at its end removed; a ".git" elsewhere in the segment is
\* kept, so the checkout of my.github-tools is looked up under that name.
C27_OnlyTrailingSuffixStripped ==
  (IsSome(located) /\ IsSome(Val(located).repo_name)) =>
    /\ Val(Val(located).repo_name) = NameWithoutSuffix(locator_url)
    /\ (~Val(located).raised /\ ReadableAt(NameWithoutSuffix(locator_url), locator_path))
         => Val(located).value
              = Some(ContentAt(NameWithoutSuffix(locator_url), locator_path))

\* the record of a job whose configuration did not parse went on with the
\* raw text
OnRawText(r) ==
  /\ r.job_type = "unknown"
  /\ SourcesAt(r, "inline_script") = {}
  /\ SourcesAt(r, "jenkinsfile_from_git") = {}
  /\ SourcesAt(r, "jenkinsfile_not_found") = {}
  /\ SourcesAt(r, "job_parameters") # {} <=> XmlSearchOf(r).found_in_parameters
  /\ SourcesAt(r, "xml_script") # {} <=> XmlSearchOf(r).found_in_script

\* C28: a job whose configuration was fetched and cannot be parsed is
\* resolved on the raw text: when the scan has ended the job has a record,
\* with job type unknown, no script source, and the job_parameters and
\* xml_script sources exactly when the checks on the raw text are positive.
C28_UnparseableContinuesOnRawText ==
  pc \in {"done", "error"} =>
    \A n \in DOMAIN all_jobs :
      LET response == config[all_jobs[n].url] IN
      (response.available /\ ~Parses(response.doc)) =>
        /\ n \in DOMAIN analyzed
        /\ OnRawText(analyzed[n])

\* the step of analyze_job a source comes from
StepOf(location) ==
  CASE location = "job_parameters" -> 1
    [] location \in {"inline_script", "jenkinsfile_from_git", "jenkinsfile_not_found"} -> 2
    [] location = "xml_script" -> 3
    [] OTHER -> 0

\* C29: the sources of every record analyze_job returns have a fixed shape:
\* each tag at most once, at most one of inline_script, jenkinsfile_from_git
\* and jenkinsfile_not_found, and in the order job_parameters, the source
\* of the script step, xml_script.
C29_SourcesFixedShape ==
  \A r \in Range(analyzed) :
    /\ \A k \in DOMAIN r.sources : StepOf(r.sources[k].location) \in 1..3
    /\ \A j, k \in DOMAIN r.sources :
         j < k => StepOf(r.sources[j].location) < StepOf(r.sources[k].location)
    /\ Cardinality({k \in DOMAIN r.sources : StepOf(r.sources[k].location) = 2}) <= 1
    /\ Len(r.sources) <= 3

C29_Witness ==
  \E r \in Range(analyzed) :
    /\ Len(r.sources) = 3
    /\ r.sources[1].location = "job_parameters"
    /\ r.sources[2].location = "jenkinsfile_not_found"
    /\ r.sources[3].location = "xml_script"

\* C30: after an export run every job reported as exported has a
\* config_file that holds the configuration of that job: no export of a
\* later job has overwritten it, also when jobs of different folders have
\* the same name or names with the same file name.
C30_ExportKeepsEveryConfig ==
  pc = "done" =>
    \A n \in DOMAIN results :
      IsSome(results[n].config_file) =>
        \E f \in configs :
          /\ f.name = Val(results[n].config_file)
          /\ f.content = get_job_config(config[results[n].job_url])

=============================================================================
